---- MODULE Spec2Model ----
(***************************************************************************)
(* Forward-pass semantics of model/layers.py (TransformerTTS).             *)
(*                                                                         *)
(* One layer object is under observation at a time (variable layer); the  *)
(* actions construct a layer or run one forward call on it.  Encoder,     *)
(* Decoder and MultiHeadAttention are followed at the level of tensor     *)
(* shapes (with the framework's broadcasting rules and shape errors);     *)
(* HeadDrop, DecoderPrenet and Postnet are followed at the level of       *)
(* tensor values.                                                          *)
(***************************************************************************)
EXTENDS Integers, Sequences, FiniteSets, TLC

\* The attribute and field names of the records of this module. TLC keeps the
\* fields of a record in the order their names first occur; every record below
\* lists its fields in this order.
FieldNames ==
    [applied_rate_1 |-> "rate the first dropout of a prenet call applied",
     applied_rate_2 |-> "rate the second dropout of a prenet call applied",
     args |-> "arguments of the operation",
     attention_weights |-> "dict returned by Decoder.call",
     b |-> "bias of a unit",
     batch |-> "input tensor or batch size",
     batch_norms |-> "PostnetConvLayers.batch_norms",
     block1 |-> "self-attention weights",
     block2 |-> "cross-attention weights",
     carn |-> "DecoderLayer.carn",
     conv_layers |-> "number of conv layers",
     conv_out |-> "output of the conv stack",
     convolutions |-> "PostnetConvLayers.convolutions",
     d |-> "denominator",
     d1 |-> "first dense layer",
     d2 |-> "second dense layer",
     data |-> "elements of a tensor",
     dec_layers |-> "Decoder.dec_layers",
     dense_hidden_units |-> "width of the feed-forward layer",
     depth |-> "MultiHeadAttention.depth",
     drop_n_heads |-> "number of heads to drop",
     dropout_1 |-> "DecoderPrenet.dropout_1",
     dropout_2 |-> "DecoderPrenet.dropout_2",
     dropout_rate |-> "dropout rate argument",
     dropouts |-> "PostnetConvLayers.dropouts",
     enc_layers |-> "Encoder.enc_layers",
     err |-> "error raised",
     ffn |-> "feed-forward sublayer",
     final_output |-> "Postnet output",
     kind |-> "class of the object",
     last_conv |-> "PostnetConvLayers.last_conv",
     mask |-> "keep-head mask",
     maximum_position_encoding |-> "length of the positional table",
     mel_linear |-> "Postnet output",
     mha |-> "attention sublayer",
     model_dim |-> "feature width",
     moving_mean |-> "running mean",
     moving_variance |-> "running variance",
     n |-> "numerator",
     noise |-> "dropout noise",
     num_heads |-> "head count(s)",
     obj |-> "constructed object",
     objs |-> "constructed objects",
     ok |-> "no error raised",
     op |-> "operation",
     out |-> "output",
     path |-> "branch taken",
     pos_encoding |-> "positional table",
     postnet_conv_layers |-> "Postnet.postnet_conv_layers",
     ret |-> "returned value",
     sarn |-> "self-attention sublayer",
     self |-> "the layer after the call",
     seq_k |-> "key length",
     seq_len |-> "input length",
     seq_q |-> "query length",
     seq_s |-> "encoder output length",
     shape |-> "shape of a tensor",
     stop_linear |-> "Postnet.stop_linear",
     stop_prob |-> "Postnet output",
     training |-> "training flag",
     training_1 |-> "mode of the first dropout",
     training_2 |-> "mode of the second dropout",
     w |-> "weight of a unit",
     weights |-> "attention weights",
     x |-> "input signal"]

VARIABLES layer, result, ncalls

vars == <<layer, result, ncalls>>

(* ------------------------------ bounds -------------------------------- *)
MaxModelDim == 4
MaxHeads == 3
MaxLayers == 2
MaxBatch == 2
MaxSeq == 2
MaxPosEnc == 2
MaxDrop == 3
MaxCalls == 2

ModelDims == 1..MaxModelDim
HeadCounts == 0..MaxHeads
Batches == 1..MaxBatch
SeqLens == 1..MaxSeq
PosEncLens == 1..MaxPosEnc
DropCounts == 0..MaxDrop
HiddenUnits == {MaxModelDim + 1}

HeadLists == UNION {[1..n -> HeadCounts] : n \in 0..MaxLayers}

(* --------------------------- tensor shapes ---------------------------- *)
\* Outcome of a shape computation: a shape, or the error that aborts the call.
Ok(s) == [err |-> "", ok |-> TRUE, shape |-> s]
Err(e) == [err |-> e, ok |-> FALSE, shape |-> <<>>]

Max2(a, b) == IF a >= b THEN a ELSE b

\* Number of elements of a tensor of shape s.
Prod(s) ==
    LET p[i \in 0..Len(s)] == IF i = 0 THEN 1 ELSE s[i] * p[i - 1]
    IN  p[Len(s)]

\* Left-pad a shape with 1s to rank n.
PadLeft(s, n) ==
    IF Len(s) >= n THEN s
    ELSE [i \in 1..n |-> IF i <= n - Len(s) THEN 1 ELSE s[i - (n - Len(s))]]

\* Two dimensions are compatible when equal or when one of them is 1.
DimCompatible(a, b) == a = b \/ a = 1 \/ b = 1

BroadcastDim(a, b) == IF a = 1 THEN b ELSE a

\* Shape of an elementwise binary operation (x + y, x * y) on tensors.
BroadcastShapes(a, b) ==
    LET n == Max2(Len(a), Len(b))
        pa == PadLeft(a, n)
        pb == PadLeft(b, n)
    IN  IF \A i \in 1..n : DimCompatible(pa[i], pb[i])
        THEN Ok([i \in 1..n |-> BroadcastDim(pa[i], pb[i])])
        ELSE Err("InvalidArgumentError: incompatible shapes")

\* A Dense layer maps the last axis to its number of units.
DenseShape(s, units) == [i \in 1..Len(s) |-> IF i = Len(s) THEN units ELSE s[i]]

\* tf.reshape(x, (d1, -1, d3, d4)) / (d1, -1, d3): the -1 axis is inferred.
ReshapeInfer(s, before, after) ==
    LET known == Prod(before) * Prod(after)
    IN  IF known = 0 THEN Err("InvalidArgumentError: reshape cannot infer")
        ELSE IF Prod(s) % known # 0
             THEN Err("InvalidArgumentError: reshape size mismatch")
             ELSE Ok(before \o <<Prod(s) \div known>> \o after)

\* tf.transpose(x, perm=[0, 2, 1, 3]) on a rank-4 tensor.
Transpose0213(s) == <<s[1], s[3], s[2], s[4]>>

\* tf.concat([a, b], axis=-1): all axes but the last must agree.
ConcatLast(a, b) ==
    IF Len(a) = Len(b) /\ \A i \in 1..(Len(a) - 1) : a[i] = b[i]
    THEN Ok([i \in 1..Len(a) |-> IF i = Len(a) THEN a[i] + b[i] ELSE a[i]])
    ELSE Err("InvalidArgumentError: concat dimension mismatch")

(* ------------------- external collaborators (interface) --------------- *)
\* Outcome of an attention computation: output shape and attention weights shape.
Ok2(o, w) == [err |-> "", ok |-> TRUE, out |-> o, weights |-> w]

Err2(e) == [err |-> e, ok |-> FALSE, out |-> <<>>, weights |-> <<>>]

\* positional_encoding(max_len, model_dim): table of shape (1, max_len, model_dim).
positional_encoding(position, d_model) == <<1, position, d_model>>

\* softmax(logits) @ v: weights keep the logits' shape (batch, heads, seq_q, seq_k),
\* the output is (batch, heads, seq_q, depth_v).
attention_output(logits, v) ==
    IF ~logits.ok THEN Err2(logits.err)
    ELSE IF ~(logits.shape[1] = v[1] /\ logits.shape[2] = v[2] /\ logits.shape[4] = v[3])
    THEN Err2("InvalidArgumentError: matmul")
    ELSE Ok2(<<logits.shape[1], logits.shape[2], logits.shape[3], v[4]>>, logits.shape)

\* scaled_dot_product_attention(q, k, v, mask) on (batch, heads, seq, depth)
\* tensors.  The mask is added to the logits q @ k^T under broadcasting.
scaled_dot_product_attention(q, k, v, mask) ==
    IF ~(q[1] = k[1] /\ q[2] = k[2] /\ q[4] = k[4])
    THEN Err2("InvalidArgumentError: matmul")
    ELSE attention_output(BroadcastShapes(<<q[1], q[2], q[3], k[3]>>, mask), v)

(* ------------------------------- dicts -------------------------------- *)
\* A Python dict (and an object's attributes): <<key, value>> pairs in
\* insertion order, one per key.
EmptyDict == <<>>

DictKeys(d) == {d[i][1] : i \in 1..Len(d)}

DictGet(d, key) == d[CHOOSE i \in 1..Len(d) : d[i][1] = key][2]

\* d[key] = value
DictSet(d, key, value) ==
    IF key \in DictKeys(d)
    THEN [i \in 1..Len(d) |-> IF d[i][1] = key THEN <<key, value>> ELSE d[i]]
    ELSE Append(d, <<key, value>>)

(* --------------------------- tensor values ---------------------------- *)
\* Exact rationals n/d in lowest terms, d >= 0; n/0 stands for +-inf and 0/0 for NaN.
Abs(x) == IF x < 0 THEN -x ELSE x

Sign(x) == IF x < 0 THEN -1 ELSE IF x = 0 THEN 0 ELSE 1

\* Greatest common divisor of a >= 0 and b >= 1.
GCD(a, b) == CHOOSE g \in 1..b :
                 /\ a % g = 0 /\ b % g = 0
                 /\ \A h \in (g + 1)..b : ~(a % h = 0 /\ b % h = 0)

Rat(n, d) ==
    IF d = 0 THEN [d |-> 0, n |-> Sign(n)]
    ELSE LET g == GCD(Abs(n), Abs(d))
         IN  [d |-> Abs(d) \div g, n |-> (Sign(d) * n) \div g]

RMul(a, b) == Rat(a.n * b.n, a.d * b.d)

IsFinite(r) == r.d # 0

\* A tensor value: its shape and its elements in row-major order.
Tensor(s, xs) == [data |-> xs, shape |-> s]

NoTensor == Tensor(<<>>, <<>>)

(* ------------------------------ HeadDrop ------------------------------ *)
\* Variant of HeadDropPath: the rank check made before the early return.
HeadDropPath_rank_check_first(shape, training, drop_n_heads) ==
    IF Len(shape) # 4 THEN "error_rank"
    ELSE IF ~training \/ drop_n_heads = 0 THEN "identity"
    ELSE IF shape[2] = 1 THEN "identity"
    ELSE IF shape[2] - drop_n_heads < 0 THEN "error_negative_size"
    ELSE "masked"

\* The path HeadDrop.call takes, decided by the guards of lines 129-138.
\* tf.ones(head_n - drop_n_heads) raises for a negative size.
HeadDropPath(shape, training, drop_n_heads) ==
    IF ~training \/ drop_n_heads = 0 THEN "identity"
    ELSE IF Len(shape) # 4 THEN "error_rank"
    ELSE IF shape[2] = 1 THEN "identity"
    ELSE IF shape[2] - drop_n_heads < 0 THEN "error_negative_size"
    ELSE "masked"

\* tf.concat([tf.ones(head_n - drop_n_heads), tf.zeros(drop_n_heads)], axis=0)
UnshuffledHeadMask(head_n, drop_n_heads) ==
    [i \in 1..(head_n - drop_n_heads) |-> 1] \o [i \in 1..drop_n_heads |-> 0]

SeqSum(s) ==
    LET p[i \in 0..Len(s)] == IF i = 0 THEN 0 ELSE s[i] + p[i - 1]
    IN  p[Len(s)]

\* m holds the elements of the 0/1 vector u in some order.
IsPermutationOf(m, u) == Len(m) = Len(u) /\ SeqSum(m) = SeqSum(u)

\* The results tf.random.shuffle can give for one row of the mask.
ShuffledHeadMasks(head_n, drop_n_heads) ==
    {m \in [1..head_n -> {0, 1}] :
        IsPermutationOf(m, UnshuffledHeadMask(head_n, drop_n_heads))}

\* tf.map_fn(tf.random.shuffle, tf.tile(mask[tf.newaxis], [batch_size, 1])):
\* one shuffle per batch row.
KeepHeadMasks(batch_size, head_n, drop_n_heads) ==
    [1..batch_size -> ShuffledHeadMasks(head_n, drop_n_heads)]

\* Variant of HeadDropScale: the fraction upside down.
HeadDropScale_inverted(head_n, drop_n_heads) == Rat(head_n - drop_n_heads, head_n)

\* head_n / (head_n - drop_n_heads): a tensor division, inf on a zero divisor.
HeadDropScale(head_n, drop_n_heads) == Rat(head_n, head_n - drop_n_heads)

\* batch * keep_head_mask[:, :, newaxis, newaxis] * scale, elementwise.
ApplyHeadMask(batch, keep_head_mask, scale) ==
    LET s == batch.shape
        perHead == s[3] * s[4]
        perRow == s[2] * perHead
    IN  Tensor(s, [i \in 1..Len(batch.data) |->
                     LET row == ((i - 1) \div perRow) + 1
                         head == (((i - 1) \div perHead) % s[2]) + 1
                     IN  RMul(RMul(batch.data[i], Rat(keep_head_mask[row][head], 1)),
                              scale)])

\* HeadDrop.call(batch, training, drop_n_heads); keep_head_mask is the outcome
\* of the random shuffles, used on the masked path only.
HeadDrop_call(batch, training, drop_n_heads, keep_head_mask) ==
    LET path == HeadDropPath(batch.shape, training, drop_n_heads)
    IN  IF path = "identity"
        THEN [err |-> "", mask |-> <<>>, ok |-> TRUE, out |-> batch, path |-> path]
        ELSE IF path = "error_rank"
        THEN [err |-> "attention values must be 4 dimensional", mask |-> <<>>, ok |-> FALSE, out |-> NoTensor, path |-> path]
        ELSE IF path = "error_negative_size"
        THEN [err |-> "InvalidArgumentError: negative dimension", mask |-> <<>>, ok |-> FALSE, out |-> NoTensor, path |-> path]
        ELSE [err |-> "", mask |-> keep_head_mask, ok |-> TRUE, out |-> ApplyHeadMask(batch, keep_head_mask,
                                    HeadDropScale(batch.shape[2], drop_n_heads)), path |-> path]

\* The random outcomes available to one HeadDrop.call.
HeadDropChoices(shape, training, drop_n_heads) ==
    IF HeadDropPath(shape, training, drop_n_heads) = "masked"
    THEN KeepHeadMasks(shape[1], shape[2], drop_n_heads)
    ELSE {<<>>}

(* ------------------------- MultiHeadAttention ------------------------- *)
NoLayer == [kind |-> "none"]

Built(obj) == [err |-> "", obj |-> obj, ok |-> TRUE]

Raised(e) == [err |-> e, obj |-> NoLayer, ok |-> FALSE]

\* Variant of AssertDivisible: the assertion left out.
AssertDivisible_skipped(model_dim, num_heads) == TRUE

\* assert model_dim % self.num_heads == 0
AssertDivisible(model_dim, num_heads) == model_dim % num_heads = 0

\* MultiHeadAttention.__init__: the modulo raises on a zero head count, the
\* assertion on a head count that does not divide model_dim.
MultiHeadAttention_init(model_dim, num_heads) ==
    IF num_heads = 0 THEN Raised("ZeroDivisionError")
    ELSE IF ~AssertDivisible(model_dim, num_heads) THEN Raised("AssertionError")
    ELSE Built([depth |-> model_dim \div num_heads, kind |-> "MultiHeadAttention", model_dim |-> model_dim, num_heads |-> num_heads])

\* tf.transpose(x, perm=[0, 2, 1, 3]) of a reshaped tensor, if the reshape succeeded.
Transposed(r) == IF r.ok THEN Ok(Transpose0213(r.shape)) ELSE r

\* tf.reshape(x, (batch_size, -1, num_heads, depth)) then transpose to
\* (batch_size, num_heads, seq_len, depth).
split_heads(self, x, batch_size) == Transposed(ReshapeInfer(x, <<batch_size>>, <<self.num_heads, self.depth>>))

\* output = self.dense(concat_query); return output, attention_weights
MultiHeadAttention_output(self, weights, concat_query) ==
    IF ~concat_query.ok THEN Err2(concat_query.err)
    ELSE Ok2(DenseShape(concat_query.shape, self.model_dim), weights)

\* concat_query = tf.concat([q_in, concat_attention], axis=-1)
MultiHeadAttention_concat(self, q_in, weights, concat_attention) ==
    IF ~concat_attention.ok THEN Err2(concat_attention.err)
    ELSE MultiHeadAttention_output(self, weights, ConcatLast(q_in, concat_attention.shape))

\* head_drop, transpose back, reshape to (batch_size, -1, model_dim).
MultiHeadAttention_combine(self, q_in, batch_size, att, training, drop_n_heads) ==
    IF ~att.ok THEN Err2(att.err)
    ELSE IF HeadDropPath(att.out, training, drop_n_heads) = "error_rank"
    THEN Err2("attention values must be 4 dimensional")
    ELSE IF HeadDropPath(att.out, training, drop_n_heads) = "error_negative_size"
    THEN Err2("InvalidArgumentError: negative dimension")
    ELSE MultiHeadAttention_concat(self, q_in, att.weights, ReshapeInfer(Transpose0213(att.out), <<batch_size>>, <<self.model_dim>>))

\* scaled_dot_product_attention on the split projections.
MultiHeadAttention_attend(self, q_in, batch_size, q, k, v, mask, training, drop_n_heads) ==
    IF ~q.ok THEN Err2(q.err)
    ELSE IF ~k.ok THEN Err2(k.err)
    ELSE IF ~v.ok THEN Err2(v.err)
    ELSE MultiHeadAttention_combine(self, q_in, batch_size, scaled_dot_product_attention(q.shape, k.shape, v.shape, mask), training, drop_n_heads)

\* MultiHeadAttention.call(v, k, q_in, mask, training, drop_n_heads) on shapes:
\* wq, wk, wv projections, split_heads with batch_size = tf.shape(q)[0].
MultiHeadAttention_call(self, v, k, q_in, mask, training, drop_n_heads) ==
    MultiHeadAttention_attend(self, q_in, q_in[1], split_heads(self, DenseShape(q_in, self.model_dim), q_in[1]), split_heads(self, DenseShape(k, self.model_dim), q_in[1]), split_heads(self, DenseShape(v, self.model_dim), q_in[1]), mask, training, drop_n_heads)

(* -------------------- residual / normalization wrappers --------------- *)
SelfAttentionResNorm_init(model_dim, num_heads) ==
    LET mha == MultiHeadAttention_init(model_dim, num_heads)
    IN  IF mha.ok THEN Built([kind |-> "SelfAttentionResNorm", mha |-> mha.obj])
        ELSE mha

\* An output shape returned together with attention weights.
WithWeights(out, weights) == IF out.ok THEN Ok2(out.shape, weights) ELSE Err2(out.err)

\* dropout; ln(x + attn_out) on the attention result m.
SelfAttentionResNorm_norm(x, m) ==
    IF ~m.ok THEN m ELSE WithWeights(BroadcastShapes(x, m.out), m.weights)

\* mha(x, x, x, mask); dropout; ln(x + attn_out)
SelfAttentionResNorm_call(self, x, training, mask, drop_n_heads) ==
    SelfAttentionResNorm_norm(x, MultiHeadAttention_call(self.mha, x, x, x, mask, training, drop_n_heads))

CrossAttentionResnorm_init(model_dim, num_heads) ==
    LET mha == MultiHeadAttention_init(model_dim, num_heads)
    IN  IF mha.ok THEN Built([kind |-> "CrossAttentionResnorm", mha |-> mha.obj])
        ELSE mha

\* dropout; layernorm(attn_values + q) on the attention result m.
CrossAttentionResnorm_norm(q, m) ==
    IF ~m.ok THEN m ELSE WithWeights(BroadcastShapes(m.out, q), m.weights)

\* mha(v, k=k, q_in=q, mask); dropout; layernorm(attn_values + q)
CrossAttentionResnorm_call(self, q, k, v, training, mask, drop_n_heads) ==
    CrossAttentionResnorm_norm(q, MultiHeadAttention_call(self.mha, v, k, q, mask, training, drop_n_heads))

FFNResNorm_init(model_dim, dense_hidden_units) ==
    [dense_hidden_units |-> dense_hidden_units, kind |-> "FFNResNorm", model_dim |-> model_dim]

\* PointWiseFFN: d2(d1(x)).
PointWiseFFN_call(self, x) ==
    DenseShape(DenseShape(x, self.dense_hidden_units), self.model_dim)

\* ffn(x); dropout; ln(x + ffn_out)
FFNResNorm_call(self, x, training) == BroadcastShapes(x, PointWiseFFN_call(self, x))

(* ------------------------ Encoder / EncoderLayer ----------------------- *)
EncoderLayer_init(model_dim, num_heads, dense_hidden_units) ==
    LET sarn == SelfAttentionResNorm_init(model_dim, num_heads)
    IN  IF ~sarn.ok THEN sarn
        ELSE Built([ffn |-> FFNResNorm_init(model_dim, dense_hidden_units), kind |-> "EncoderLayer", sarn |-> sarn.obj])

\* return self.ffn(attn_out, training=training)
EncoderLayer_ffn(self, attn, training) ==
    IF ~attn.ok THEN Err(attn.err) ELSE FFNResNorm_call(self.ffn, attn.out, training)

\* sarn(x, mask, training, drop_n_heads) then ffn(attn_out, training)
EncoderLayer_call(self, x, training, mask, drop_n_heads) ==
    EncoderLayer_ffn(self, SelfAttentionResNorm_call(self.sarn, x, training, mask, drop_n_heads), training)

\* [Layer(model_dim, heads, ...) for heads in num_heads]: built left to right,
\* the first constructor that raises ends the comprehension.
FirstFailure(built) == CHOOSE i \in DOMAIN built :
                           ~built[i].ok /\ \A j \in 1..(i - 1) : built[j].ok

LayerList(built) ==
    IF \A i \in DOMAIN built : built[i].ok
    THEN [err |-> "", objs |-> [i \in DOMAIN built |-> built[i].obj], ok |-> TRUE]
    ELSE [err |-> built[FirstFailure(built)].err, objs |-> <<>>, ok |-> FALSE]

Encoder_init(model_dim, num_heads, dense_hidden_units, maximum_position_encoding) ==
    LET layers == LayerList([i \in 1..Len(num_heads) |->
                     EncoderLayer_init(model_dim, num_heads[i], dense_hidden_units)])
    IN  IF ~layers.ok THEN Raised(layers.err)
        ELSE Built([enc_layers |-> layers.objs, kind |-> "Encoder", model_dim |-> model_dim, pos_encoding |-> positional_encoding(maximum_position_encoding, model_dim)])

Min2(a, b) == IF a <= b THEN a ELSE b

\* self.pos_encoding[:, :seq_len, :]: a slice stops at the end of the table.
PosEncodingSlice(pos_encoding, seq_len) ==
    <<pos_encoding[1], Min2(seq_len, pos_encoding[2]), pos_encoding[3]>>

\* x = inputs * sqrt(model_dim); x += self.pos_encoding[:, :seq_len, :]; dropout
EntryTreatment(self, inputs) ==
    BroadcastShapes(inputs, PosEncodingSlice(self.pos_encoding, inputs[2]))

\* x = layer(x, training, mask, drop_n_heads), unless an earlier step raised.
Encoder_step(enc_layer, x, training, mask, drop_n_heads) ==
    IF ~x.ok THEN x ELSE EncoderLayer_call(enc_layer, x.shape, training, mask, drop_n_heads)

\* for layer in self.enc_layers: x = layer(x, training, mask, drop_n_heads)
\* after[i] is x after the first i layers, or the error that ended the call.
EncoderStack(layers, x, training, mask, drop_n_heads) ==
    LET after[i \in 0..Len(layers)] ==
            IF i = 0 THEN x
            ELSE Encoder_step(layers[i], after[i - 1], training, mask, drop_n_heads)
    IN  after[Len(layers)]

Encoder_call(self, inputs, training, mask, drop_n_heads) ==
    EncoderStack(self.enc_layers, EntryTreatment(self, inputs), training, mask, drop_n_heads)

(* ------------------------ Decoder / DecoderLayer ----------------------- *)
DecoderLayer_init(model_dim, num_heads, dense_hidden_units) ==
    LET sarn == SelfAttentionResNorm_init(model_dim, num_heads)
        carn == CrossAttentionResnorm_init(model_dim, num_heads)
    IN  IF ~sarn.ok THEN sarn
        ELSE IF ~carn.ok THEN carn
        ELSE Built([carn |-> carn.obj, ffn |-> FFNResNorm_init(model_dim, dense_hidden_units), kind |-> "DecoderLayer", sarn |-> sarn.obj])

Ok3(o, b1, b2) == [block1 |-> b1, block2 |-> b2, err |-> "", ok |-> TRUE, out |-> o]

Err3(e) == [block1 |-> <<>>, block2 |-> <<>>, err |-> e, ok |-> FALSE, out |-> <<>>]

\* return ffn_out, attn1_weights, attn2_weights
DecoderLayer_return(block1, block2, ffn_out) ==
    IF ~ffn_out.ok THEN Err3(ffn_out.err) ELSE Ok3(ffn_out.shape, block1, block2)

\* ffn_out = self.ffn(attn2, training)
DecoderLayer_ffn(self, block1, attn2, training) ==
    IF ~attn2.ok THEN Err3(attn2.err)
    ELSE DecoderLayer_return(block1, attn2.weights, FFNResNorm_call(self.ffn, attn2.out, training))

\* attn2 = self.carn(attn1, v=enc_output, k=enc_output, mask=padding_mask)
DecoderLayer_cross(self, attn1, enc_output, training, padding_mask, drop_n_heads) ==
    IF ~attn1.ok THEN Err3(attn1.err)
    ELSE DecoderLayer_ffn(self, attn1.weights, CrossAttentionResnorm_call(self.carn, attn1.out, enc_output, enc_output, training, padding_mask, drop_n_heads), training)

\* sarn(x, look_ahead_mask); carn(attn1, v=enc_output, k=enc_output, padding_mask);
\* ffn(attn2)
DecoderLayer_call(self, x, enc_output, training, look_ahead_mask, padding_mask, drop_n_heads) ==
    DecoderLayer_cross(self, SelfAttentionResNorm_call(self.sarn, x, training, look_ahead_mask, drop_n_heads), enc_output, training, padding_mask, drop_n_heads)

\* Variant of Decoder_init: every layer built with the first head count.
Decoder_init_single_head_count(model_dim, num_heads, dense_hidden_units, maximum_position_encoding) ==
    LET layers == LayerList([i \in 1..Len(num_heads) |->
                     DecoderLayer_init(model_dim, num_heads[1], dense_hidden_units)])
    IN  IF ~layers.ok THEN Raised(layers.err)
        ELSE Built([dec_layers |-> layers.objs, kind |-> "Decoder", model_dim |-> model_dim, pos_encoding |-> positional_encoding(maximum_position_encoding, model_dim)])

Decoder_init(model_dim, num_heads, dense_hidden_units, maximum_position_encoding) ==
    LET layers == LayerList([i \in 1..Len(num_heads) |->
                     DecoderLayer_init(model_dim, num_heads[i], dense_hidden_units)])
    IN  IF ~layers.ok THEN Raised(layers.err)
        ELSE Built([dec_layers |-> layers.objs, kind |-> "Decoder", model_dim |-> model_dim, pos_encoding |-> positional_encoding(maximum_position_encoding, model_dim)])

\* Variant of BlockKey: the enumerate index used as it is.
BlockKey_zero_based(i, n) == "decoder_layer" \o ToString(i) \o "_block" \o ToString(n)

\* f'decoder_layer{i + 1}_block{n}' for the 0-based enumerate index i.
BlockKey(i, n) == "decoder_layer" \o ToString(i + 1) \o "_block" \o ToString(n)

OkD(o, w) == [attention_weights |-> w, err |-> "", ok |-> TRUE, out |-> o]

ErrD(e) == [attention_weights |-> EmptyDict, err |-> e, ok |-> FALSE, out |-> <<>>]

\* attention_weights[f'decoder_layer{i + 1}_block1'] = block1, ..._block2 = block2
Decoder_store(attention_weights, i, r) ==
    IF ~r.ok THEN ErrD(r.err)
    ELSE OkD(r.out, DictSet(DictSet(attention_weights, BlockKey(i, 1), r.block1), BlockKey(i, 2), r.block2))

\* x, block1, block2 = layer(x, enc_output, ...), unless an earlier step raised;
\* i is the 0-based enumerate index.
Decoder_step(dec_layer, i, prev, enc_output, training, look_ahead_mask, padding_mask, drop_n_heads) ==
    IF ~prev.ok THEN prev
    ELSE Decoder_store(prev.attention_weights, i, DecoderLayer_call(dec_layer, prev.out, enc_output, training, look_ahead_mask, padding_mask, drop_n_heads))

\* attention_weights = {}; for i, layer in enumerate(self.dec_layers): ...
\* after[n] is the loop's state after the first n layers.
DecoderStack(layers, x, enc_output, training, look_ahead_mask, padding_mask, drop_n_heads) ==
    LET after[n \in 0..Len(layers)] ==
            IF n = 0 THEN IF x.ok THEN OkD(x.shape, EmptyDict) ELSE ErrD(x.err)
            ELSE Decoder_step(layers[n], n - 1, after[n - 1], enc_output, training, look_ahead_mask, padding_mask, drop_n_heads)
    IN  after[Len(layers)]

Decoder_call(self, inputs, enc_output, training, look_ahead_mask, padding_mask, drop_n_heads) ==
    DecoderStack(self.dec_layers, EntryTreatment(self, inputs), enc_output, training, look_ahead_mask, padding_mask, drop_n_heads)

(* ------------------- framework layers on tensor values ----------------- *)
\* The value-level layers work on one batch row with one channel: a tensor of
\* shape (1, T, 1) is the sequence of its T elements.  Trainable parameters are
\* integers fixed by the initializer seed; rates are percentages.
MaxSeed == 2
MaxConvLayers == 2
MaxKernel == 2

Seeds == 1..MaxSeed
Rates == {0, 50}
InputValues == {-1, 2}
Signals == UNION {[1..t -> InputValues] : t \in SeqLens}

KeepNoise(t) == [1..t -> {0, 1}]

\* Parameters of a Dense layer with one unit per output u, drawn by the initializer.
DenseParams(seed, idx, units) ==
    [u \in 1..units |-> [b |-> (seed + u) % 2, w |-> ((seed + idx + u) % 3) - 1]]

Relu(v) == IF v > 0 THEN v ELSE 0

\* tanh on the integer grid saturates at -1 and 1.
Tanh(v) == Sign(v)

\* Dense(units=1, activation='relu') on a signal.
DenseRelu(params, x) == [t \in 1..Len(x) |-> Relu(params[1].w * x[t] + params[1].b)]

\* Dense(units) with no activation: one vector of logits per position.
DenseLinear(params, x) ==
    [t \in 1..Len(x) |-> [u \in 1..Len(params) |-> params[u].w * x[t] + params[u].b]]

\* tf.keras.layers.Dropout(rate): the layer applies the attribute `rate`, and only
\* in training mode; kept elements are scaled by 1 / (1 - rate).
Dropout_init(rate) == DictSet(EmptyDict, "rate", rate)

Dropout_call(self, x, training, keep) ==
    LET rate == DictGet(self, "rate")
    IN  IF ~training \/ rate = 0 THEN x
        ELSE [t \in 1..Len(x) |-> IF keep[t] = 1 THEN (x[t] * 100) \div (100 - rate)
                                                 ELSE 0]

\* obj.name = value on an object's attributes (creates the attribute if absent).
SetAttr(obj, name, value) == DictSet(obj, name, value)

(* ----------------------------- DecoderPrenet --------------------------- *)
DecoderPrenet_init(seed, dropout_rate) ==
    [d1 |-> DenseParams(seed, 1, 1), d2 |-> DenseParams(seed, 2, 1), dropout_1 |-> Dropout_init(dropout_rate), dropout_2 |-> Dropout_init(dropout_rate), kind |-> "DecoderPrenet"]

\* Lines 31-32: self.dropout_N.dropout_rate = dropout_rate
DecoderPrenet_configure(self, dropout_rate) ==
    [self EXCEPT !.dropout_1 = SetAttr(self.dropout_1, "dropout_rate", dropout_rate),
                 !.dropout_2 = SetAttr(self.dropout_2, "dropout_rate", dropout_rate)]

\* Lines 33-38 on the configured layer; keep1 and keep2 are the dropout noise.
\* The record returned tells, next to the output, what each dropout applied.
DecoderPrenet_forward(self, x, keep1, keep2) ==
    LET h1 == DenseRelu(self.d1, x)
        n1 == Dropout_call(self.dropout_1, h1, TRUE, keep1)
        h2 == DenseRelu(self.d2, n1)
        n2 == Dropout_call(self.dropout_2, h2, TRUE, keep2)
    IN  [ret |-> [applied_rate_1 |-> DictGet(self.dropout_1, "rate"), applied_rate_2 |-> DictGet(self.dropout_2, "rate"), out |-> n2, training_1 |-> TRUE, training_2 |-> TRUE], self |-> self]

\* DecoderPrenet.call(x, dropout_rate)
DecoderPrenet_call(self, x, dropout_rate, keep1, keep2) ==
    DecoderPrenet_forward(DecoderPrenet_configure(self, dropout_rate), x, keep1, keep2)

(* ----------------------- Postnet / PostnetConvLayers ------------------- *)
\* Conv1D(filters=1, kernel_size, padding='causal') kernel drawn by the initializer.
ConvKernel(seed, idx, kernel_size) == [j \in 1..kernel_size |-> ((seed + idx + j) % 3) - 1]

\* Causal convolution: position t sees positions t - kernel_size + 1 .. t,
\* zero-padded on the left.
Conv1D_causal(kernel, x) ==
    LET K == Len(kernel)
        at(t) == IF t >= 1 THEN x[t] ELSE 0
    IN  [t \in 1..Len(x) |-> SeqSum([j \in 1..K |-> kernel[j] * at(t - K + j)])]

\* Integer square root of v >= 0.
ISqrt(v) == CHOOSE r \in 0..v : r * r <= v /\ (r + 1) * (r + 1) > v

Mean(x) == SeqSum(x) \div Len(x)

Variance(x) == Mean([t \in 1..Len(x) |-> (x[t] - Mean(x)) * (x[t] - Mean(x))])

Normalize(x, mean, variance) ==
    LET sd == IF ISqrt(variance) >= 1 THEN ISqrt(variance) ELSE 1
    IN  [t \in 1..Len(x) |-> (x[t] - mean) \div sd]

\* tf.keras.layers.BatchNormalization(): running statistics in hundredths,
\* momentum 0.99, initial moving mean 0 and moving variance 1.
BatchNormalization_init == [moving_mean |-> 0, moving_variance |-> 100]

\* Variant of BatchNormalization_call: the running statistics follow every call.
BatchNormalization_call_updates_in_inference(self, x, training) ==
    [out |-> IF training THEN Normalize(x, Mean(x), Variance(x))
                         ELSE Normalize(x, self.moving_mean \div 100, self.moving_variance \div 100),
     self |-> [moving_mean |-> (99 * self.moving_mean) \div 100 + Mean(x),
               moving_variance |-> (99 * self.moving_variance) \div 100 + Variance(x)]]

\* Training mode normalizes with the batch statistics and folds them into the
\* running statistics; inference mode normalizes with the running statistics.
BatchNormalization_call(self, x, training) ==
    IF training
    THEN [out |-> Normalize(x, Mean(x), Variance(x)),
          self |-> [moving_mean |-> (99 * self.moving_mean) \div 100 + Mean(x),
                    moving_variance |-> (99 * self.moving_variance) \div 100
                                        + Variance(x)]]
    ELSE [out |-> Normalize(x, self.moving_mean \div 100, self.moving_variance \div 100),
          self |-> self]

PostnetConvLayers_init(seed, n_layers, kernel_size, dropout_prob) ==
    [batch_norms |-> [i \in 1..n_layers |-> BatchNormalization_init], convolutions |-> [i \in 1..(n_layers - 1) |-> ConvKernel(seed, i, kernel_size)], dropouts |-> [i \in 1..(n_layers - 1) |-> Dropout_init(dropout_prob)], kind |-> "PostnetConvLayers", last_conv |-> ConvKernel(seed, n_layers, kernel_size)]

\* activation='tanh' of a Conv1D layer.
TanhActivation(x) == [t \in 1..Len(x) |-> Tanh(x[t])]

\* x = self.dropouts[i](x, training=training); batch norm i keeps its statistics.
PostnetConvLayers_dropout(self, i, bn, training, keep) ==
    [out |-> Dropout_call(self.dropouts[i], bn.out, training, keep), self |-> [self EXCEPT !.batch_norms[i] = bn.self]]

\* x = self.convolutions[i](x); x = self.batch_norms[i](x, training=training); ...
PostnetConvLayers_step(prev, i, training, keep) ==
    PostnetConvLayers_dropout(prev.self, i, BatchNormalization_call(prev.self.batch_norms[i], TanhActivation(Conv1D_causal(prev.self.convolutions[i], prev.out)), training), training, keep)

\* for i in range(0, len(self.convolutions)): after[i] is the signal and the
\* layer after the first i rounds.
PostnetConvLoop(self, x, training, keeps) ==
    LET after[i \in 0..Len(self.convolutions)] ==
            IF i = 0 THEN [out |-> x, self |-> self]
            ELSE PostnetConvLayers_step(after[i - 1], i, training, keeps[i])
    IN  after[Len(self.convolutions)]

\* return x, the last batch norm keeping its statistics.
PostnetConvLayers_return(self, bn) ==
    [out |-> bn.out, self |-> [self EXCEPT !.batch_norms[Len(self.batch_norms)] = bn.self]]

\* x = self.last_conv(x); x = self.batch_norms[-1](x, training=training)
PostnetConvLayers_last(l, training) ==
    PostnetConvLayers_return(l.self, BatchNormalization_call(l.self.batch_norms[Len(l.self.batch_norms)], Conv1D_causal(l.self.last_conv, l.out), training))

\* PostnetConvLayers.call(x, training): the loop, last_conv, batch_norms[-1].
PostnetConvLayers_call(self, x, training, keeps) ==
    PostnetConvLayers_last(PostnetConvLoop(self, x, training, keeps), training)

Postnet_init(seed, conv_layers, kernel_size) ==
    [kind |-> "Postnet", postnet_conv_layers |-> PostnetConvLayers_init(seed, conv_layers, kernel_size, 50), stop_linear |-> DenseParams(seed, 0, 3)]

\* tf.keras.layers.Add()([a, b])
Add(a, b) == [t \in 1..Len(a) |-> a[t] + b[t]]

\* Variant of Postnet_add: the conv stack's output returned without the input.
Postnet_add_without_residual(self, x, c) ==
    [conv_out |-> c.out, out |-> c.out, self |-> [self EXCEPT !.postnet_conv_layers = c.self]]

\* x = self.add_layer([conv_out, x]); return x
Postnet_add(self, x, c) ==
    [conv_out |-> c.out, out |-> Add(c.out, x), self |-> [self EXCEPT !.postnet_conv_layers = c.self]]

\* Postnet.conv_net(x, training): the conv stack's output added to x.
Postnet_conv_net(self, x, training, keeps) ==
    Postnet_add(self, x, PostnetConvLayers_call(self.postnet_conv_layers, x, training, keeps))

\* return {'mel_linear': x, 'final_output': conv_out, 'stop_prob': stop}
Postnet_return(x, stop, c) ==
    [conv_out |-> c.conv_out, ret |-> [final_output |-> c.out, mel_linear |-> x, stop_prob |-> stop], self |-> c.self]

\* Postnet.call(x, training)
Postnet_call(self, x, training, keeps) ==
    Postnet_return(x, DenseLinear(self.stop_linear, x), Postnet_conv_net(self, x, training, keeps))

(* ------------------------------- inputs -------------------------------- *)
MaxDepth == 2

\* Rank-4 attention values (batch, heads, seq_q, depth) and rank-3 tensors.
AttentionShapes ==
    {<<b, h, q, d>> : b \in Batches, h \in 1..MaxHeads, q \in SeqLens, d \in 1..MaxDepth}
    \cup {<<b, h, q>> : b \in Batches, h \in 1..MaxHeads, q \in SeqLens}

\* A tensor of the given shape with pairwise different elements.
InputTensor(shape, offset) ==
    Tensor(shape, [i \in 1..Prod(shape) |-> Rat(i + offset, 1)])

\* Masks shaped for a call: causal (1, 1, seq_t, seq_t), padding (batch, 1, 1, seq_s).
LookAheadMask(seq_t) == <<1, 1, seq_t, seq_t>>

PaddingMask(batch, seq_s) == <<batch, 1, 1, seq_s>>

(* ------------------------------- actions ------------------------------- *)
Init ==
    /\ layer = NoLayer
    /\ result = [op |-> "none"]
    /\ ncalls = 0

\* A constructor call: the object it built, or none when it raised.
Constructed(op, args, built) ==
    /\ layer' = built.obj
    /\ result' = [args |-> args, err |-> built.err, ok |-> built.ok, op |-> op]
    /\ ncalls' = 0

\* One object is constructed and then followed through its calls.
ConstructMultiHeadAttention ==
    /\ layer = NoLayer
    /\ \E model_dim \in ModelDims, num_heads \in HeadCounts :
          Constructed("MultiHeadAttention.__init__",
                      [model_dim |-> model_dim, num_heads |-> <<num_heads>>],
                      MultiHeadAttention_init(model_dim, num_heads))

ConstructEncoder ==
    /\ layer = NoLayer
    /\ \E model_dim \in ModelDims, num_heads \in HeadLists, units \in HiddenUnits, maximum_position_encoding \in PosEncLens :
          Constructed("Encoder.__init__",
                      [maximum_position_encoding |-> maximum_position_encoding, model_dim |-> model_dim, num_heads |-> num_heads],
                      Encoder_init(model_dim, num_heads, units, maximum_position_encoding))

ConstructDecoder ==
    /\ layer = NoLayer
    /\ \E model_dim \in ModelDims, num_heads \in HeadLists, units \in HiddenUnits, maximum_position_encoding \in PosEncLens :
          Constructed("Decoder.__init__",
                      [maximum_position_encoding |-> maximum_position_encoding, model_dim |-> model_dim, num_heads |-> num_heads],
                      Decoder_init(model_dim, num_heads, units, maximum_position_encoding))

ConstructHeadDrop ==
    /\ layer = NoLayer
    /\ Constructed("HeadDrop.__init__", <<>>, Built([kind |-> "HeadDrop"]))

ConstructDecoderPrenet ==
    /\ layer = NoLayer
    /\ \E seed \in Seeds, dropout_rate \in Rates :
          Constructed("DecoderPrenet.__init__", [dropout_rate |-> dropout_rate],
                      Built(DecoderPrenet_init(seed, dropout_rate)))

ConstructPostnet ==
    /\ layer = NoLayer
    /\ \E seed \in Seeds, conv_layers \in 1..MaxConvLayers, kernel_size \in 1..MaxKernel :
          Constructed("Postnet.__init__", [conv_layers |-> conv_layers],
                      Built(Postnet_init(seed, conv_layers, kernel_size)))

\* Forward calls followed per object.  A call that assigns no attribute leaves
\* the object as it found it, so every later call starts where the first did.
CallBudget(kind) == IF kind \in {"DecoderPrenet", "Postnet"} THEN MaxCalls ELSE 1

\* A forward call that assigns no attribute of the layer.
Called(op, args, ret) ==
    /\ ncalls < CallBudget(layer.kind)
    /\ ncalls' = ncalls + 1
    /\ result' = [args |-> args, op |-> op, ret |-> ret]
    /\ UNCHANGED layer

\* A forward call that leaves the layer as c.self and returns c.ret.
Returned(op, args, c) ==
    /\ ncalls < CallBudget(layer.kind)
    /\ ncalls' = ncalls + 1
    /\ result' = [args |-> args, op |-> op, ret |-> c.ret]
    /\ layer' = c.self

MultiHeadAttentionCall ==
    /\ layer.kind = "MultiHeadAttention"
    /\ \E batch \in Batches, seq_q \in SeqLens, seq_k \in SeqLens, training \in BOOLEAN,
          drop_n_heads \in DropCounts :
          Called("MultiHeadAttention.call",
                 [batch |-> batch, drop_n_heads |-> drop_n_heads, seq_k |-> seq_k, seq_q |-> seq_q, training |-> training],
                 MultiHeadAttention_call(layer, <<batch, seq_k, layer.model_dim>>,
                                         <<batch, seq_k, layer.model_dim>>,
                                         <<batch, seq_q, layer.model_dim>>,
                                         PaddingMask(batch, seq_k), training,
                                         drop_n_heads))

EncoderCall ==
    /\ layer.kind = "Encoder"
    /\ \E batch \in Batches, seq_len \in SeqLens, training \in BOOLEAN,
          drop_n_heads \in DropCounts :
          Called("Encoder.call",
                 [batch |-> batch, drop_n_heads |-> drop_n_heads, seq_len |-> seq_len, training |-> training],
                 Encoder_call(layer, <<batch, seq_len, layer.model_dim>>, training,
                              PaddingMask(batch, seq_len), drop_n_heads))

DecoderCall ==
    /\ layer.kind = "Decoder"
    /\ \E batch \in Batches, seq_t \in SeqLens, seq_s \in SeqLens, training \in BOOLEAN,
          drop_n_heads \in DropCounts :
          Called("Decoder.call",
                 [batch |-> batch, drop_n_heads |-> drop_n_heads, seq_len |-> seq_t, seq_s |-> seq_s, training |-> training],
                 Decoder_call(layer, <<batch, seq_t, layer.model_dim>>,
                              <<batch, seq_s, layer.model_dim>>, training,
                              LookAheadMask(seq_t), PaddingMask(batch, seq_s),
                              drop_n_heads))

HeadDropCall ==
    /\ layer.kind = "HeadDrop"
    /\ \E shape \in AttentionShapes, offset \in {-1, 0}, training \in BOOLEAN,
          drop_n_heads \in DropCounts :
          \E keep_head_mask \in HeadDropChoices(shape, training, drop_n_heads) :
              Called("HeadDrop.call",
                     [batch |-> InputTensor(shape, offset), drop_n_heads |-> drop_n_heads, training |-> training],
                     HeadDrop_call(InputTensor(shape, offset), training, drop_n_heads,
                                   keep_head_mask))

\* DecoderPrenet.call(x, dropout_rate): lines 31-32 write the sublayers'
\* attributes, lines 33-38 run the forward pass.
DecoderPrenetCall ==
    /\ layer.kind = "DecoderPrenet"
    /\ \E x \in Signals, dropout_rate \in Rates :
          \E keep1 \in KeepNoise(Len(x)), keep2 \in KeepNoise(Len(x)) :
              Returned("DecoderPrenet.call", [dropout_rate |-> dropout_rate, x |-> x],
                       DecoderPrenet_call(layer, x, dropout_rate, keep1, keep2))

\* Postnet.call(x, training): the batch norms of the conv stack keep their
\* updated running statistics.
PostnetCall ==
    /\ layer.kind = "Postnet"
    /\ \E x \in Signals, training \in BOOLEAN :
          \E keeps \in [1..Len(layer.postnet_conv_layers.dropouts) -> KeepNoise(Len(x))] :
              Returned("Postnet.call", [noise |-> keeps, training |-> training, x |-> x],
                       Postnet_call(layer, x, training, keeps))

Next ==
    \/ ConstructMultiHeadAttention
    \/ ConstructEncoder
    \/ ConstructDecoder
    \/ ConstructHeadDrop
    \/ ConstructDecoderPrenet
    \/ ConstructPostnet
    \/ MultiHeadAttentionCall
    \/ EncoderCall
    \/ DecoderCall
    \/ HeadDropCall
    \/ DecoderPrenetCall
    \/ PostnetCall

Spec == Init /\ [][Next]_vars

(* ------------------------------ properties ----------------------------- *)
\* The step of a forward call.
CallStep == ncalls' = ncalls + 1

DecoderReturned == result.op = "Decoder.call" /\ result.ret.ok

\* The self-attention and the cross-attention of decoder layer i on an input of
\* the target's shape, with the arguments of the call recorded in result.
DecoderSelfAttention(i) ==
    SelfAttentionResNorm_call(layer.dec_layers[i].sarn, <<result.args.batch, result.args.seq_len, layer.model_dim>>, result.args.training, LookAheadMask(result.args.seq_len), result.args.drop_n_heads)

DecoderCrossAttention(i) ==
    CrossAttentionResnorm_call(layer.dec_layers[i].carn, DecoderSelfAttention(i).out, <<result.args.batch, result.args.seq_s, layer.model_dim>>, <<result.args.batch, result.args.seq_s, layer.model_dim>>, result.args.training, PaddingMask(result.args.batch, result.args.seq_s), result.args.drop_n_heads)

\* C1: a Decoder built from a num_heads list of length N has N layers, and the
\* attention-weight mapping a Decoder.call returns has exactly the 2N keys
\* decoder_layer{i}_block1 and decoder_layer{i}_block2 for i in 1..N, block1
\* holding layer i's self-attention weights and block2 its cross-attention
\* weights.  Every layer receives an input of the target's shape: the entry
\* treatment and every layer keep that shape.
C1_DecoderAttentionKeys ==
    /\ (result.op = "Decoder.__init__" /\ result.ok)
          => Len(layer.dec_layers) = Len(result.args.num_heads)
    /\ DecoderReturned =>
          LET n == Len(layer.dec_layers)
              w == result.ret.attention_weights
              x == <<result.args.batch, result.args.seq_len, layer.model_dim>>
              key(i, b) == "decoder_layer" \o ToString(i) \o "_block" \o ToString(b)
          IN  /\ Len(w) = 2 * n
              /\ DictKeys(w) = {key(i, b) : i \in 1..n, b \in {1, 2}}
              /\ EntryTreatment(layer, x).shape = x
              /\ \A i \in 1..n :
                    /\ FFNResNorm_call(layer.dec_layers[i].ffn, DecoderCrossAttention(i).out, result.args.training).shape = x
                    /\ DictGet(w, key(i, 1)) = DecoderSelfAttention(i).weights
                    /\ DictGet(w, key(i, 2)) = DecoderCrossAttention(i).weights

\* A two-layer decoder returned, its two blocks' weights differing in shape.
C1_Witness ==
    /\ DecoderReturned
    /\ Len(layer.dec_layers) = 2
    /\ result.args.seq_len # result.args.seq_s

\* C2: Postnet.call returns mel_linear = x, final_output = mel_linear plus the
\* output of the conv stack on x under the same training flag, and stop_prob
\* the dense projection of x.
C2_PostnetResidual ==
    [][(layer.kind = "Postnet" /\ CallStep) =>
          LET a == result'.args
              conv == PostnetConvLayers_call(layer.postnet_conv_layers, a.x, a.training, a.noise).out
          IN  /\ result'.ret.mel_linear = a.x
              /\ result'.ret.final_output = [t \in 1..Len(a.x) |-> result'.ret.mel_linear[t] + conv[t]]
              /\ result'.ret.stop_prob = DenseLinear(layer.stop_linear, a.x)]_vars

\* An inference call after a training call: the refined output differs from the
\* input, and so does its dense projection from the returned stop_prob.
C2_Witness ==
    /\ result.op = "Postnet.call"
    /\ ncalls = 2
    /\ ~result.args.training
    /\ layer.postnet_conv_layers.batch_norms # PostnetConvLayers_init(1, Len(layer.postnet_conv_layers.batch_norms), 1, 50).batch_norms
    /\ result.ret.final_output # result.ret.mel_linear
    /\ DenseLinear(layer.stop_linear, result.ret.final_output) # result.ret.stop_prob

HeadDropInput == result.args.batch.shape

\* C3: HeadDrop.call returns its input when training is False, or drop_n_heads
\* is 0, or the rank-4 input has one head; in the first two cases whatever the
\* rank of the input.
C3_HeadDropIdentity ==
    (/\ result.op = "HeadDrop.call"
     /\ \/ ~result.args.training
        \/ result.args.drop_n_heads = 0
        \/ (Len(HeadDropInput) = 4 /\ HeadDropInput[2] = 1))
        => (result.ret.ok /\ result.ret.out = result.args.batch)

\* An inference call with heads to drop on an input that is not rank 4.
C3_Witness ==
    /\ result.op = "HeadDrop.call"
    /\ Len(HeadDropInput) = 3
    /\ ~result.args.training
    /\ result.args.drop_n_heads > 0
    /\ result.ret.out = result.args.batch

HeadDropMaskedCase ==
    /\ result.op = "HeadDrop.call"
    /\ result.args.training
    /\ Len(HeadDropInput) = 4
    /\ HeadDropInput[2] > 1
    /\ 0 < result.args.drop_n_heads
    /\ result.args.drop_n_heads < HeadDropInput[2]

\* Indices of the elements of head h of batch row b in a (B, H, Q, D) tensor.
ElementsOf(shape, b, h) ==
    {i \in 1..Prod(shape) : /\ ((i - 1) \div (shape[2] * shape[3] * shape[4])) + 1 = b
                            /\ (((i - 1) \div (shape[3] * shape[4])) % shape[2]) + 1 = h}

\* C4: on the masked path every batch row keeps exactly num_heads - drop_n_heads
\* heads and zeroes the other drop_n_heads; an element of a kept head is the
\* input element times num_heads / (num_heads - drop_n_heads); the shape is kept.
C4_HeadDropMasked ==
    HeadDropMaskedCase =>
        LET in == result.args.batch
            out == result.ret.out
            heads == in.shape[2]
            kept_n == heads - result.args.drop_n_heads
        IN  /\ result.ret.ok
            /\ out.shape = in.shape
            /\ Len(out.data) = Len(in.data)
            /\ \A b \in 1..in.shape[1] :
                  \E kept \in SUBSET (1..heads) :
                     /\ Cardinality(kept) = kept_n
                     /\ Cardinality((1..heads) \ kept) = result.args.drop_n_heads
                     /\ \A h \in kept : \A i \in ElementsOf(in.shape, b, h) :
                           /\ out.data[i].d # 0
                           /\ out.data[i].n * in.data[i].d * kept_n = in.data[i].n * heads * out.data[i].d
                     /\ \A h \in (1..heads) \ kept : \A i \in ElementsOf(in.shape, b, h) :
                           out.data[i] = Rat(0, 1)

\* Two batch rows of one call drew different masks.
C4_Witness ==
    /\ HeadDropMaskedCase
    /\ HeadDropInput[1] = 2
    /\ HeadDropInput[2] = 3
    /\ result.ret.mask[1] # result.ret.mask[2]
    /\ result.ret.out.data # result.args.batch.data

\* C5: both dropout steps of a DecoderPrenet.call run in training mode and apply
\* the dropout_rate argument of that call.
C5_PrenetAppliesCallRate ==
    result.op = "DecoderPrenet.call" =>
        /\ result.ret.training_1 /\ result.ret.training_2
        /\ result.ret.applied_rate_1 = result.args.dropout_rate
        /\ result.ret.applied_rate_2 = result.args.dropout_rate

\* A call asking for no dropout on a layer built with rate 50 that dropped anyway.
C5_Witness ==
    /\ result.op = "DecoderPrenet.call"
    /\ result.args.dropout_rate = 0
    /\ result.ret.applied_rate_1 = 50
    /\ result.ret.applied_rate_2 = 50
    /\ DictGet(layer.dropout_1, "dropout_rate") = 0

LongSequenceCall ==
    /\ result.op \in {"Encoder.call", "Decoder.call"}
    /\ result.args.seq_len > layer.pos_encoding[2]

\* C6: an Encoder.call or Decoder.call on an input longer than
\* maximum_position_encoding ends in an error and returns no tensor.
C6_RejectsLongSequence == LongSequenceCall => ~result.ret.ok

\* A call that returned on an input longer than the positional table.
C6_Witness ==
    /\ LongSequenceCall
    /\ result.ret.ok
    /\ result.args.seq_len = 2
    /\ layer.pos_encoding[2] = 1

DegenerateDropCall ==
    /\ result.op = "HeadDrop.call"
    /\ result.args.training
    /\ Len(HeadDropInput) = 4
    /\ HeadDropInput[2] > 1
    /\ result.args.drop_n_heads >= HeadDropInput[2]

\* C7: a training HeadDrop.call on a rank-4 input with num_heads > 1 and
\* drop_n_heads >= num_heads ends in an error and returns no tensor.
C7_RejectsDegenerateDrop == DegenerateDropCall => ~result.ret.ok

\* A call dropping every head that returned a tensor of NaNs.
C7_Witness ==
    /\ DegenerateDropCall
    /\ result.ret.ok
    /\ result.args.drop_n_heads = HeadDropInput[2]
    /\ \E i \in 1..Len(result.ret.out.data) : result.ret.out.data[i] = [d |-> 0, n |-> 0]

Divides(h, m) == h # 0 /\ m % h = 0

\* The attention sublayers of each stacked layer of a constructed object.
AttentionLayers(obj) ==
    IF obj.kind = "MultiHeadAttention" THEN <<{obj}>>
    ELSE IF obj.kind = "Encoder"
    THEN [i \in 1..Len(obj.enc_layers) |-> {obj.enc_layers[i].sarn.mha}]
    ELSE [i \in 1..Len(obj.dec_layers) |-> {obj.dec_layers[i].sarn.mha, obj.dec_layers[i].carn.mha}]

AttentionConstructors == {"MultiHeadAttention.__init__", "Encoder.__init__", "Decoder.__init__"}

\* C8: constructing a MultiHeadAttention, Encoder or Decoder fails, leaving no
\* object, exactly when some head count does not divide model_dim; otherwise
\* every attention sublayer has its layer's head count and depth
\* model_dim / num_heads.
C8_DivisibleHeads ==
    result.op \in AttentionConstructors =>
        LET m == result.args.model_dim
            h == result.args.num_heads
        IN  /\ result.ok <=> \A i \in 1..Len(h) : Divides(h[i], m)
            /\ ~result.ok => layer = NoLayer
            /\ result.ok =>
                  /\ Len(AttentionLayers(layer)) = Len(h)
                  /\ \A i \in 1..Len(h) : \A a \in AttentionLayers(layer)[i] :
                        /\ a.num_heads = h[i]
                        /\ a.depth * h[i] = m
                        /\ a.model_dim = m

\* An Encoder whose second head count does not divide model_dim was refused.
C8_Witness ==
    /\ result.op = "Encoder.__init__"
    /\ ~result.ok
    /\ layer = NoLayer
    /\ Len(result.args.num_heads) = 2
    /\ Divides(result.args.num_heads[1], result.args.model_dim)
    /\ result.args.num_heads[2] # 0
    /\ ~Divides(result.args.num_heads[2], result.args.model_dim)

\* An object without the running statistics of its normalization sublayers.
WithoutRunningStatistics(obj) ==
    IF obj.kind = "Postnet" THEN [obj EXCEPT !.postnet_conv_layers.batch_norms = <<>>] ELSE obj

\* Every attribute of a sublayer keeps the value it had.
AttributesKept(before, after) ==
    \A name \in DictKeys(before) :
        name \in DictKeys(after) /\ DictGet(after, name) = DictGet(before, name)

\* Nothing but running statistics differs, no attribute changes its value.
FrameOfCall ==
    IF layer.kind = "DecoderPrenet"
    THEN /\ layer'.d1 = layer.d1 /\ layer'.d2 = layer.d2
         /\ AttributesKept(layer.dropout_1, layer'.dropout_1)
         /\ AttributesKept(layer.dropout_2, layer'.dropout_2)
    ELSE WithoutRunningStatistics(layer') = WithoutRunningStatistics(layer)

PrenetDropoutAfter(before, after, dropout_rate) ==
    /\ DictKeys(after) = DictKeys(before) \cup {"dropout_rate"}
    /\ DictGet(after, "dropout_rate") = dropout_rate
    /\ DictGet(after, "rate") = DictGet(before, "rate")

C10_DecoderShapes ==
    /\ (result.op = "Decoder.__init__" /\ result.ok) =>
          \A i \in 1..Len(result.args.num_heads) :
             /\ layer.dec_layers[i].sarn.mha.num_heads = result.args.num_heads[i]
             /\ layer.dec_layers[i].carn.mha.num_heads = result.args.num_heads[i]
    /\ result.op = "Decoder.call" =>
          LET a == result.args
          IN  /\ (a.seq_len <= layer.pos_encoding[2] /\ (~a.training \/ a.drop_n_heads = 0))
                    => result.ret.ok
              /\ result.ret.ok =>
                    /\ result.ret.out = <<a.batch, a.seq_len, layer.model_dim>>
                    /\ \A i \in 1..Len(layer.dec_layers) :
                          LET heads == layer.dec_layers[i].sarn.mha.num_heads
                          IN  /\ DictGet(result.ret.attention_weights,
                                         "decoder_layer" \o ToString(i) \o "_block1")
                                    = <<a.batch, heads, a.seq_len, a.seq_len>>
                              /\ DictGet(result.ret.attention_weights,
                                         "decoder_layer" \o ToString(i) \o "_block2")
                                    = <<a.batch, heads, a.seq_len, a.seq_s>>

\* A decoder with two different head counts returned from a call.
C10_Witness ==
    /\ DecoderReturned
    /\ Len(layer.dec_layers) = 2
    /\ layer.dec_layers[1].sarn.mha.num_heads # layer.dec_layers[2].sarn.mha.num_heads
    /\ result.args.seq_len # result.args.seq_s
    /\ result.args.batch = 2

====
